---- MODULE Spec2Model ----
(***************************************************************************)
(* The live session engine of src/App.tsx as a state machine.              *)
(*                                                                         *)
(* JavaScript runs on one event loop: every task (a click, a transport     *)
(* callback, a timer, the continuation of an async function after an       *)
(* await) runs to its next await or to its end without interleaving.  One  *)
(* action of the model is one such task.                                   *)
(*                                                                         *)
(* Time advances in ticks of TickMs milliseconds.  A setTimeout of d ms    *)
(* fires after Ticks(d) ticks; the output AudioContext's currentTime       *)
(* advances by one per tick while the context is running.                  *)
(***************************************************************************)
EXTENDS Integers, Sequences, FiniteSets

\* ---------------------------------------------------------------- bounds
MaxStarts == 2      \* startSession invocations of the restart scenario
MaxMsgs == 2        \* inbound messages of the single-session scenario
RestartMsgs == 1    \* inbound messages of the restart scenario
MaxTime == 2        \* largest currentTime of an output AudioContext
MaxDur == 1         \* largest duration of a decoded audio buffer
MaxFrames == 2      \* video frames sampled in the capture scenario

\* ------------------------------------------------------- program constants
ThreatDwellMs == 5000
ShutdownDelayMs == 500

\* One tick of the model's time is half a dwell window.
TickMs == ThreatDwellMs \div 2

Ticks(ms) == (ms + TickMs - 1) \div TickMs

Starts == 1..MaxStarts
Handlers == 1..MaxMsgs
Frames == 1..MaxFrames

Max(a, b) == IF a >= b THEN a ELSE b

\* ---------------------------------------------------------------- state
VARIABLES
  status,             \* useState<SessionStatus>
  error,              \* useState<string | null>; "" is null
  isThreatDetected,   \* useState(false)
  isShuttingDown,     \* useRef(false)
  sessionPromiseRef,  \* 0 is null, i the promise made by the i-th startSession
  nextStartTimeRef,   \* the playback clock
  sourcesRef,         \* the active set: the handlers whose source node is in it
  frameIntervalRef,   \* 0 is null, i the interval armed by session i's onopen
  inputAudioCtxRef,   \* 0 is null, i the context made by the i-th startSession
  outputAudioCtxRef,
  srcObject,          \* videoRef.current.srcObject: 0 is null, i the i-th stream
  startPc,            \* where each startSession invocation stands
  stream,             \* the tracks of each acquired MediaStream
  inCtx,              \* state of each input AudioContext
  outCtx,             \* state of each output AudioContext
  outTime,            \* currentTime of each output AudioContext
  session,            \* state of each live session (its socket)
  closeReq,           \* s.close() is chained on a promise not yet resolved
  interval,           \* the video sampling interval each onopen armed
  hpc,                \* where each onmessage invocation stands
  hsess,              \* the session that delivered it
  hmsg,               \* the message it handles
  hidx,               \* index of the function call it is awaiting
  hctx,               \* the ctx it captured at line 243
  audioQ,             \* the handlers at lines 244-247, in the order they got there
  unit,               \* the source node it created
  arr,                \* output clock when its message arrived
  cut,                \* a playback reset happened since it arrived
  sent,               \* every sendToolResponse call made, in order
  threatTimers,       \* remaining ticks of each pending 5000 ms timeout
  shutdownTimers,     \* remaining ticks of each pending 500 ms timeout
  stops,              \* stopSession calls made so far
  fpc,                \* where each sampled video frame stands
  media               \* the sendRealtimeInput calls made

appVars == <<status, error, isThreatDetected, isShuttingDown, sessionPromiseRef,
             nextStartTimeRef, sourcesRef, frameIntervalRef, inputAudioCtxRef,
             outputAudioCtxRef, srcObject>>
envVars == <<startPc, stream, inCtx, outCtx, outTime, session, closeReq, interval>>
msgVars == <<hpc, hsess, hmsg, hidx, hctx, audioQ, unit, arr, cut, sent>>
timerVars == <<threatTimers, shutdownTimers>>
capVars == <<fpc, media>>
vars == <<appVars, envVars, msgVars, timerVars, stops, capVars>>

NoUnit == [st |-> "none", start |-> 0, dur |-> 0, at |-> 0, endAt |-> 0]
NoMsg == [calls |-> <<>>, text |-> "none", audio |-> FALSE, interrupted |-> FALSE]

Init ==
  /\ status = "IDLE"
  /\ error = ""
  /\ isThreatDetected = FALSE
  /\ isShuttingDown = FALSE
  /\ sessionPromiseRef = 0
  /\ nextStartTimeRef = 0
  /\ sourcesRef = {}
  /\ frameIntervalRef = 0
  /\ inputAudioCtxRef = 0
  /\ outputAudioCtxRef = 0
  /\ srcObject = 0
  /\ startPc = [i \in Starts |-> "idle"]
  /\ stream = [i \in Starts |-> "none"]
  /\ inCtx = [i \in Starts |-> "none"]
  /\ outCtx = [i \in Starts |-> "none"]
  /\ outTime = [i \in Starts |-> 0]
  /\ session = [i \in Starts |-> "none"]
  /\ closeReq = [i \in Starts |-> FALSE]
  /\ interval = [i \in Starts |-> "none"]
  /\ hpc = [h \in Handlers |-> "idle"]
  /\ hsess = [h \in Handlers |-> 0]
  /\ hmsg = [h \in Handlers |-> NoMsg]
  /\ hidx = [h \in Handlers |-> 0]
  /\ hctx = [h \in Handlers |-> 0]
  /\ audioQ = <<>>
  /\ unit = [h \in Handlers |-> NoUnit]
  /\ arr = [h \in Handlers |-> 0]
  /\ cut = [h \in Handlers |-> FALSE]
  /\ sent = <<>>
  /\ threatTimers = {}
  /\ shutdownTimers = {}
  /\ stops = 0
  /\ fpc = [f \in Frames |-> "idle"]
  /\ media = {}

\* ------------------------------------------------------------ stopSession
\* Every handler that has been delivered has seen a playback reset.
CutAll == [h \in Handlers |-> cut[h] \/ hpc[h] # "idle"]

\* line 117: s.stop() on every source of the active set
StopUnits(u, src) ==
  [h \in Handlers |-> IF h \in src /\ u[h].st = "playing"
                      THEN [u[h] EXCEPT !.st = "stopped"] ELSE u[h]]

\* lines 110-115: close() runs as soon as the promise is resolved, which it is
\* once the session is open; on a connecting session it stays chained.
StopClosesSession(s) ==
  IF sessionPromiseRef # 0 /\ s[sessionPromiseRef] = "open"
  THEN [s EXCEPT ![sessionPromiseRef] = "closing"] ELSE s

StopChainsClose ==
  IF sessionPromiseRef # 0 /\ session[sessionPromiseRef] = "connecting"
  THEN [closeReq EXCEPT ![sessionPromiseRef] = TRUE] ELSE closeReq

\* line 132 left out: the clock keeps its value
StopClockKept == nextStartTimeRef

\* line 132
StopClock == 0

\* stopSession(); errSess is the session whose onerror called it, 0 for a click
stopSession(errSess) ==
  /\ isShuttingDown' = TRUE
  /\ interval' = IF frameIntervalRef # 0 /\ interval[frameIntervalRef] = "armed"
                 THEN [interval EXCEPT ![frameIntervalRef] = "cleared"]
                 ELSE interval
  /\ session' = [j \in Starts |-> IF j = errSess THEN "failed"
                                  ELSE StopClosesSession(session)[j]]
  /\ closeReq' = StopChainsClose
  /\ sessionPromiseRef' = 0
  /\ unit' = StopUnits(unit, sourcesRef)
  /\ sourcesRef' = {}
  /\ inCtx' = IF inputAudioCtxRef # 0
              THEN [inCtx EXCEPT ![inputAudioCtxRef] = "closed"] ELSE inCtx
  /\ outCtx' = IF outputAudioCtxRef # 0
               THEN [outCtx EXCEPT ![outputAudioCtxRef] = "closed"] ELSE outCtx
  /\ stream' = IF srcObject # 0
               THEN [stream EXCEPT ![srcObject] = "stopped"] ELSE stream
  /\ srcObject' = 0
  /\ inputAudioCtxRef' = 0
  /\ outputAudioCtxRef' = 0
  /\ status' = "IDLE"
  /\ isThreatDetected' = FALSE
  /\ nextStartTimeRef' = StopClock
  /\ shutdownTimers' = shutdownTimers \cup {Ticks(ShutdownDelayMs)}
  /\ cut' = CutAll
  /\ stops' = stops + 1
  /\ UNCHANGED <<frameIntervalRef, startPc, outTime, hpc, hsess, hmsg, hidx, hctx,
                 audioQ, arr, sent, threatTimers, capVars>>

\* line 316: the button, while the status is ACTIVE
ClickStop ==
  /\ status = "ACTIVE"
  /\ stopSession(0)
  /\ UNCHANGED error

\* ----------------------------------------------------------- startSession
\* line 316: the button, while the status is not ACTIVE; lines 138-144
ClickStart(limit) ==
  /\ status # "ACTIVE"
  /\ \E i \in 1..limit :
       /\ startPc[i] = "idle"
       /\ \A j \in Starts : j < i => startPc[j] # "idle"
       /\ startPc' = [startPc EXCEPT ![i] = "media"]
  /\ error' = ""
  /\ status' = "CONNECTING"
  /\ UNCHANGED <<isThreatDetected, isShuttingDown, sessionPromiseRef,
                 nextStartTimeRef, sourcesRef, frameIntervalRef, inputAudioCtxRef,
                 outputAudioCtxRef, srcObject, stream, inCtx, outCtx, outTime,
                 session, closeReq, interval, msgVars, timerVars, stops, capVars>>

\* lines 144-151: getUserMedia resolves
MediaGranted(i) ==
  /\ startPc[i] = "media"
  /\ startPc' = [startPc EXCEPT ![i] = "play"]
  /\ stream' = [stream EXCEPT ![i] = "live"]
  /\ srcObject' = i
  /\ UNCHANGED <<status, error, isThreatDetected, isShuttingDown, sessionPromiseRef,
                 nextStartTimeRef, sourcesRef, frameIntervalRef, inputAudioCtxRef,
                 outputAudioCtxRef, inCtx, outCtx, outTime, session, closeReq,
                 interval, msgVars, timerVars, stops, capVars>>

\* lines 144, 279-283: getUserMedia rejects
MediaDenied(i) ==
  /\ startPc[i] = "media"
  /\ startPc' = [startPc EXCEPT ![i] = "failed"]
  /\ error' = "Check permissions."
  /\ status' = "IDLE"
  /\ UNCHANGED <<isThreatDetected, isShuttingDown, sessionPromiseRef,
                 nextStartTimeRef, sourcesRef, frameIntervalRef, inputAudioCtxRef,
                 outputAudioCtxRef, srcObject, stream, inCtx, outCtx, outTime,
                 session, closeReq, interval, msgVars, timerVars, stops, capVars>>

\* lines 151-278: play() settles, the contexts are made, the session is asked for
Connect(i) ==
  /\ startPc[i] = "play"
  /\ startPc' = [startPc EXCEPT ![i] = "done"]
  /\ inCtx' = [inCtx EXCEPT ![i] = "open"]
  /\ \E st \in {"suspended", "running"} : outCtx' = [outCtx EXCEPT ![i] = st]
  /\ inputAudioCtxRef' = i
  /\ outputAudioCtxRef' = i
  /\ session' = [session EXCEPT ![i] = "connecting"]
  /\ sessionPromiseRef' = i
  /\ UNCHANGED <<status, error, isThreatDetected, isShuttingDown, nextStartTimeRef,
                 sourcesRef, frameIntervalRef, srcObject, stream, outTime, closeReq,
                 interval, msgVars, timerVars, stops, capVars>>

\* ------------------------------------------------------ transport callbacks
\* lines 172-210: the socket opens; onopen runs, then the promise resolves and
\* a chained close() runs
onopen(i) ==
  /\ session[i] = "connecting"
  /\ session' = [session EXCEPT ![i] = IF closeReq[i] THEN "closing" ELSE "open"]
  /\ closeReq' = [closeReq EXCEPT ![i] = FALSE]
  /\ IF isShuttingDown
     THEN UNCHANGED <<status, interval, frameIntervalRef>>
     ELSE /\ status' = "ACTIVE"
          /\ interval' = [interval EXCEPT ![i] = "armed"]
          /\ frameIntervalRef' = i
  /\ UNCHANGED <<error, isThreatDetected, isShuttingDown, sessionPromiseRef,
                 nextStartTimeRef, sourcesRef, inputAudioCtxRef, outputAudioCtxRef,
                 srcObject, startPc, stream, inCtx, outCtx, outTime, msgVars,
                 timerVars, stops, capVars>>

\* lines 266-272: a transport error, also while the closing handshake is under
\* way; the socket then closes
onerror(i) ==
  /\ session[i] \in {"connecting", "open", "closing"}
  /\ IF isShuttingDown
     THEN /\ session' = [session EXCEPT ![i] = "failed"]
          /\ UNCHANGED <<appVars, startPc, stream, inCtx, outCtx, outTime, closeReq,
                         interval, msgVars, timerVars, stops, capVars>>
     ELSE /\ error' = "Guardian down."
          /\ stopSession(i)

\* lines 273-275: the socket has closed, by the remote end or after close()
onclose(i) ==
  /\ session[i] \in {"open", "closing", "failed"}
  /\ session' = [session EXCEPT ![i] = "closed"]
  /\ status' = IF isShuttingDown THEN status ELSE "IDLE"
  /\ UNCHANGED <<error, isThreatDetected, isShuttingDown, sessionPromiseRef,
                 nextStartTimeRef, sourcesRef, frameIntervalRef, inputAudioCtxRef,
                 outputAudioCtxRef, srcObject, startPc, stream, inCtx, outCtx,
                 outTime, closeReq, interval, msgVars, timerVars, stops, capVars>>

\* ------------------------------------------------------------- onmessage
RegisteredTool == "get_location_address"

Msg(calls, text, audio, interrupted) ==
  [calls |-> calls, text |-> text, audio |-> audio, interrupted |-> interrupted]

\* The inbound messages the remote end may send.
MsgKinds ==
  { Msg(<<RegisteredTool, RegisteredTool>>, "none", FALSE, FALSE),
    Msg(<<"other">>, "none", FALSE, FALSE),
    Msg(<<RegisteredTool>>, "none", TRUE, FALSE),
    Msg(<<>>, "threat", FALSE, FALSE),
    Msg(<<>>, "none", TRUE, FALSE),
    Msg(<<>>, "none", FALSE, TRUE),
    Msg(<<>>, "none", TRUE, TRUE) }

\* utils/audio decodeAudioData: an awaited operation that yields a buffer with
\* a duration, or throws
decodeAudioData ==
  {[ok |-> FALSE, dur |-> 0]} \cup {[ok |-> TRUE, dur |-> d] : d \in 1..MaxDur}

\* lines 78-104: what fetchAddress resolves with; it never rejects
fetchAddress == {"address", "note", "error"}

\* line 216 left out: every call is answered
NextCallAny(calls, k) == IF k <= Len(calls) THEN k ELSE 0

\* lines 215-216: the first call at or after index k that names the registered
\* tool, 0 when there is none
NextCall(calls, k) ==
  LET S == {j \in k..Len(calls) : calls[j] = RegisteredTool}
  IN IF S = {} THEN 0 ELSE CHOOSE j \in S : \A x \in S : j <= x

\* lines 228-234: criticalKeywords.some(word => textLower.includes(word))
IsThreat(text) == text = "threat"

\* line 263 left out: the clock keeps its value
InterruptedClockKept(m, clk) == clk

\* lines 260-264: what the interrupted block leaves
InterruptedClock(m, clk) == IF m.interrupted THEN 0 ELSE clk

\* line 262 left out: the active set keeps its members
InterruptedSourcesKept(m, src) == src

InterruptedSources(m, src) == IF m.interrupted THEN {} ELSE src

\* lines 260-264, the last block of the handler; clk, src and u are the clock,
\* the active set and the source nodes as the blocks before it left them
Interrupted(h, m, clk, src, u) ==
  /\ hpc' = [hpc EXCEPT ![h] = "done"]
  /\ nextStartTimeRef' = InterruptedClock(m, clk)
  /\ sourcesRef' = InterruptedSources(m, src)
  /\ unit' = IF m.interrupted THEN StopUnits(u, src) ELSE u
  /\ cut' = IF m.interrupted
            THEN [x \in Handlers |-> cut[x] \/ hpc[x] # "idle" \/ x = h]
            ELSE cut

\* line 245 without Math.max: the clock is set to the output time
ArrivalClockNow(clk, now) == now

\* line 245
ArrivalClock(clk, now) == Max(clk, now)

\* lines 225-264: the handler after the tool calls, to its next await or its end
AfterCalls(h, m) ==
  /\ isThreatDetected' = (IsThreat(m.text) \/ isThreatDetected)
  /\ threatTimers' = IF IsThreat(m.text)
                     THEN threatTimers \cup {Ticks(ThreatDwellMs)}
                     ELSE threatTimers
  /\ IF m.audio /\ outputAudioCtxRef # 0 /\ ~isShuttingDown
     THEN /\ hctx' = [hctx EXCEPT ![h] = outputAudioCtxRef]
          /\ audioQ' = Append(audioQ, h)
          /\ IF outCtx[outputAudioCtxRef] = "suspended"
             THEN /\ hpc' = [hpc EXCEPT ![h] = "resume"]
                  /\ UNCHANGED nextStartTimeRef
             ELSE /\ hpc' = [hpc EXCEPT ![h] = "decode"]
                  /\ nextStartTimeRef' =
                       ArrivalClock(nextStartTimeRef, outTime[outputAudioCtxRef])
          /\ UNCHANGED <<sourcesRef, unit, cut>>
     ELSE /\ Interrupted(h, m, nextStartTimeRef, sourcesRef, unit)
          /\ UNCHANGED <<hctx, audioQ>>

\* lines 211-223: a message arrives on an open session
onmessage(h, i, m) ==
  /\ session[i] = "open"
  /\ hpc[h] = "idle"
  /\ \A g \in Handlers : g < h => hpc[g] # "idle"
  /\ hsess' = [hsess EXCEPT ![h] = i]
  /\ hmsg' = [hmsg EXCEPT ![h] = m]
  /\ arr' = [arr EXCEPT ![h] = IF m.audio /\ outputAudioCtxRef # 0
                               THEN outTime[outputAudioCtxRef] ELSE 0]
  /\ IF isShuttingDown
     THEN /\ hpc' = [hpc EXCEPT ![h] = "dropped"]
          /\ UNCHANGED <<isThreatDetected, threatTimers, hctx, audioQ,
                         nextStartTimeRef, sourcesRef, unit, cut, hidx>>
     ELSE IF NextCall(m.calls, 1) # 0
     THEN /\ hpc' = [hpc EXCEPT ![h] = "tool"]
          /\ hidx' = [hidx EXCEPT ![h] = NextCall(m.calls, 1)]
          /\ UNCHANGED <<isThreatDetected, threatTimers, hctx, audioQ,
                         nextStartTimeRef, sourcesRef, unit, cut>>
     ELSE /\ AfterCalls(h, m)
          /\ UNCHANGED hidx
  /\ UNCHANGED <<status, error, isShuttingDown, sessionPromiseRef, frameIntervalRef,
                 inputAudioCtxRef, outputAudioCtxRef, srcObject, envVars, sent,
                 shutdownTimers, stops, capVars>>

\* lines 218-220: sendToolResponse is called whatever the session's state
ToolResponse(h, k, r) ==
  [id |-> <<h, k>>, name |-> hmsg[h].calls[k], result |-> r,
   late |-> session[hsess[h]] # "open"]

\* lines 217-223: fetchAddress resolves with r; the response is sent and the
\* loop goes on to the next call
FetchDone(h, r) ==
  /\ hpc[h] = "tool"
  /\ sent' = Append(sent, ToolResponse(h, hidx[h], r))
  /\ IF NextCall(hmsg[h].calls, hidx[h] + 1) # 0
     THEN /\ hidx' = [hidx EXCEPT ![h] = NextCall(hmsg[h].calls, hidx[h] + 1)]
          /\ UNCHANGED <<isThreatDetected, threatTimers, hctx, audioQ, hpc,
                         nextStartTimeRef, sourcesRef, unit, cut>>
     ELSE /\ AfterCalls(h, hmsg[h])
          /\ UNCHANGED hidx
  /\ UNCHANGED <<status, error, isShuttingDown, sessionPromiseRef, frameIntervalRef,
                 inputAudioCtxRef, outputAudioCtxRef, srcObject, envVars, hsess,
                 hmsg, arr, shutdownTimers, stops, capVars>>

\* lines 244-245: the context c starts running and every pending resume()
\* resolves; the handlers awaiting one go on, in the order they called it, each
\* to its decode
ResumeDone(c) ==
  /\ outCtx[c] = "suspended"
  /\ \E h \in Handlers : hpc[h] = "resume" /\ hctx[h] = c
  /\ outCtx' = [outCtx EXCEPT ![c] = "running"]
  /\ hpc' = [h \in Handlers |-> IF hpc[h] = "resume" /\ hctx[h] = c
                                THEN "decode" ELSE hpc[h]]
  /\ nextStartTimeRef' = ArrivalClock(nextStartTimeRef, outTime[c])
  /\ UNCHANGED <<status, error, isThreatDetected, isShuttingDown, sessionPromiseRef,
                 sourcesRef, frameIntervalRef, inputAudioCtxRef, outputAudioCtxRef,
                 srcObject, startPc, stream, inCtx, outTime, session, closeReq,
                 interval, hsess, hmsg, hidx, hctx, audioQ, unit, arr, cut, sent,
                 timerVars, stops, capVars>>

Without(q, h) == SelectSeq(q, LAMBDA x : x # h)

\* The handler whose decode was started first, 0 when none is decoding
FirstDecoding ==
  LET D == SelectSeq(audioQ, LAMBDA x : hpc[x] = "decode")
  IN IF D = <<>> THEN 0 ELSE Head(D)

\* line 244: resume() of a closed context rejects; the handler ends there
ResumeRejected(h) ==
  /\ hpc[h] = "resume"
  /\ outCtx[hctx[h]] = "closed"
  /\ hpc' = [hpc EXCEPT ![h] = "aborted"]
  /\ audioQ' = Without(audioQ, h)
  /\ UNCHANGED <<appVars, envVars, hsess, hmsg, hidx, hctx, unit, arr, cut, sent,
                 timerVars, stops, capVars>>

\* lines 248-254: the source node made for a decoded buffer of duration d
Scheduled(h, d) ==
  [st |-> "playing", start |-> nextStartTimeRef, dur |-> d,
   at |-> outTime[hctx[h]],
   endAt |-> Max(nextStartTimeRef, outTime[hctx[h]]) + d]

\* the catch advancing the clock as if a buffer had been scheduled
SkippedClockAdvanced(clk) == clk + MaxDur

\* lines 255-257: the catch only logs; the clock stays as line 245 left it
SkippedClock(clk) == clk

\* lines 246-264: the decode settles with o; the unit is scheduled, or skipped.
\* Decodes settle in the order they were started.
DecodeDone(h, o) ==
  /\ hpc[h] = "decode"
  /\ h = FirstDecoding
  /\ audioQ' = Without(audioQ, h)
  /\ IF o.ok
     THEN Interrupted(h, hmsg[h], nextStartTimeRef + o.dur, sourcesRef \cup {h},
                      [unit EXCEPT ![h] = Scheduled(h, o.dur)])
     ELSE Interrupted(h, hmsg[h], SkippedClock(nextStartTimeRef), sourcesRef, unit)
  /\ UNCHANGED <<status, error, isThreatDetected, isShuttingDown, sessionPromiseRef,
                 frameIntervalRef, inputAudioCtxRef, outputAudioCtxRef, srcObject,
                 envVars, hsess, hmsg, hidx, hctx, arr, sent, timerVars,
                 stops, capVars>>

\* line 251: the 'ended' event of a source that played to its end
UnitEnded(h) ==
  /\ unit[h].st = "playing"
  /\ outCtx[hctx[h]] = "running"
  /\ outTime[hctx[h]] >= unit[h].endAt
  /\ unit' = [unit EXCEPT ![h].st = "ended"]
  /\ sourcesRef' = sourcesRef \ {h}
  /\ UNCHANGED <<status, error, isThreatDetected, isShuttingDown, sessionPromiseRef,
                 nextStartTimeRef, frameIntervalRef, inputAudioCtxRef,
                 outputAudioCtxRef, srcObject, envVars, hpc, hsess, hmsg, hidx,
                 hctx, audioQ, arr, cut, sent, timerVars, stops, capVars>>

\* ------------------------------------------------------- outbound media
\* lines 184-188, 203-205: a sendRealtimeInput call; after tells whether
\* stopSession had run by then
MediaChunk(kind) == [kind |-> kind, after |-> stops > 0]

\* lines 180-189: the ScriptProcessor of session i hands over a block of samples
\* while its input context is open; the promise is resolved by then, so the send
\* follows at once
onaudioprocess(i) ==
  /\ interval[i] # "none"
  /\ inCtx[i] = "open"
  /\ ~isShuttingDown
  /\ MediaChunk("audio") \notin media
  /\ media' = media \cup {MediaChunk("audio")}
  /\ UNCHANGED <<appVars, envVars, msgVars, timerVars, stops, fpc>>

\* lines 192-201: the 600 ms interval of session i fires; the frame is drawn and
\* toBlob is asked to compress it
FrameTick(f, i) ==
  /\ interval[i] = "armed"
  /\ fpc[f] = "idle"
  /\ \A g \in Frames : g < f => fpc[g] # "idle"
  /\ fpc' = [fpc EXCEPT ![f] = IF isShuttingDown THEN "dropped" ELSE "blob"]
  /\ UNCHANGED <<appVars, envVars, msgVars, timerVars, stops, media>>

\* lines 200-202: toBlob calls back with the blob b, or with null; the frame
\* goes on to blobToBase64 when there is a blob and no shutdown is under way
BlobDone(f, b) ==
  /\ fpc[f] = "blob"
  /\ fpc' = [fpc EXCEPT ![f] = IF b /\ ~isShuttingDown THEN "b64" ELSE "dropped"]
  /\ UNCHANGED <<appVars, envVars, msgVars, timerVars, stops, media>>

\* lines 202-206: the blob has been read; the frame is sent
B64Done(f) ==
  /\ fpc[f] = "b64"
  /\ fpc' = [fpc EXCEPT ![f] = "sent"]
  /\ media' = media \cup {MediaChunk("image")}
  /\ UNCHANGED <<appVars, envVars, msgVars, timerVars, stops>>

\* ------------------------------------------------------------------ time
\* line 134: setTimeout(() => { isShuttingDown.current = false; }, 500)
ShutdownTimerFires ==
  /\ 0 \in shutdownTimers
  /\ shutdownTimers' = shutdownTimers \ {0}
  /\ isShuttingDown' = FALSE
  /\ UNCHANGED <<status, error, isThreatDetected, sessionPromiseRef,
                 nextStartTimeRef, sourcesRef, frameIntervalRef, inputAudioCtxRef,
                 outputAudioCtxRef, srcObject, envVars, msgVars, threatTimers,
                 stops, capVars>>

\* line 237: setTimeout(() => setIsThreatDetected(false), 5000)
ThreatTimerFires ==
  /\ 0 \in threatTimers
  /\ threatTimers' = threatTimers \ {0}
  /\ isThreatDetected' = FALSE
  /\ UNCHANGED <<status, error, isShuttingDown, sessionPromiseRef,
                 nextStartTimeRef, sourcesRef, frameIntervalRef, inputAudioCtxRef,
                 outputAudioCtxRef, srcObject, envVars, msgVars, shutdownTimers,
                 stops, capVars>>

\* One tick passes: no timeout is overdue, every pending one comes one tick
\* closer and every running output context's clock advances.
Tick ==
  /\ 0 \notin threatTimers
  /\ 0 \notin shutdownTimers
  /\ \A i \in Starts : outCtx[i] = "running" => outTime[i] < MaxTime
  /\ \/ threatTimers # {}
     \/ shutdownTimers # {}
     \/ \E i \in Starts : outCtx[i] = "running"
  /\ threatTimers' = {t - 1 : t \in threatTimers}
  /\ shutdownTimers' = {t - 1 : t \in shutdownTimers}
  /\ outTime' = [i \in Starts |-> IF outCtx[i] = "running" THEN outTime[i] + 1
                                  ELSE outTime[i]]
  /\ UNCHANGED <<appVars, startPc, stream, inCtx, outCtx, session, closeReq,
                 interval, msgVars, stops, capVars>>

\* The session's life: the user's stop, the steps of startSession, the
\* transport's callbacks, the shutdown timeout and the passing of time.
Lifecycle ==
  \/ ClickStop
  \/ \E i \in Starts : MediaGranted(i)
  \/ \E i \in Starts : MediaDenied(i)
  \/ \E i \in Starts : Connect(i)
  \/ \E i \in Starts : onopen(i)
  \/ \E i \in Starts : onerror(i)
  \/ \E i \in Starts : onclose(i)
  \/ ShutdownTimerFires
  \/ Tick

\* The continuations of onmessage after its awaits, and what they set off.
Tools == \E h \in Handlers, r \in fetchAddress : FetchDone(h, r)

Playback ==
  \/ \E c \in Starts : ResumeDone(c)
  \/ \E h \in Handlers : ResumeRejected(h)
  \/ \E h \in Handlers, o \in decodeAudioData : DecodeDone(h, o)
  \/ \E h \in Handlers : UnitEnded(h)
  \/ ThreatTimerFires

\* The single-session scenario: the user starts once; the remote end sends up
\* to MaxMsgs messages of any kind.
Next ==
  \/ ClickStart(1)
  \/ \E h \in Handlers, i \in Starts, m \in MsgKinds : onmessage(h, i, m)
  \/ Lifecycle
  \/ Tools
  \/ Playback

Spec == Init /\ [][Next]_vars

\* The restart scenario: the user starts up to MaxStarts times; the remote end
\* sends up to RestartMsgs messages, each one tool call.
RestartKinds == {Msg(<<RegisteredTool>>, "none", FALSE, FALSE)}

NextRestart ==
  \/ ClickStart(MaxStarts)
  \/ \E h \in 1..RestartMsgs, i \in Starts, m \in RestartKinds : onmessage(h, i, m)
  \/ Lifecycle
  \/ Tools

SpecRestart == Init /\ [][NextRestart]_vars

\* The capture→encode→send loop that onopen starts.
Capture ==
  \/ \E i \in Starts : onaudioprocess(i)
  \/ \E f \in Frames, i \in Starts : FrameTick(f, i)
  \/ \E f \in Frames, b \in BOOLEAN : BlobDone(f, b)
  \/ \E f \in Frames : B64Done(f)

\* The capture scenario: the user starts once, no message arrives, and the
\* loop samples up to MaxFrames video frames.
NextCapture ==
  \/ ClickStart(1)
  \/ Lifecycle
  \/ Capture

SpecCapture == Init /\ [][NextCapture]_vars

\* ----------------------------------------------------------------- claims
Registered(m) == {k \in 1..Len(m.calls) : m.calls[k] = RegisteredTool}

Responses(h, k) ==
  {n \in 1..Len(sent) : sent[n].id = <<h, k>> /\ sent[n].name = hmsg[h].calls[k]}

\* C1: whenever the handler of a message that carries the interrupted flag
\* comes to its end, it leaves the active set empty and the playback clock 0.
C1_InterruptedResets ==
  [][\A h \in Handlers :
       (hpc[h] \notin {"done", "aborted"} /\ hpc'[h] \in {"done", "aborted"}
          /\ hmsg'[h].interrupted)
       => (sourcesRef' = {} /\ nextStartTimeRef' = 0)]_vars

\* An interrupted message has been handled with no stop at all, and it cut
\* every unit that had been scheduled, its own one included.
C1_Witness ==
  /\ stops = 0
  /\ \E h \in Handlers : hpc[h] = "done" /\ hmsg[h].interrupted /\ hmsg[h].audio
  /\ \A g \in Handlers : unit[g].st = "stopped"
  /\ sourcesRef = {}
  /\ nextStartTimeRef = 0

\* C2: of two audio chunks of one session that arrive one after the other
\* and are both scheduled, with no interruption and no stop since the first
\* arrived, the second starts at max(start of the first + its duration, output
\* clock at the second's arrival).
C2_StartRule ==
  \A g, h \in Handlers :
    (/\ g < h
     /\ hmsg[g].audio /\ hmsg[h].audio
     /\ \A x \in Handlers : (g < x /\ x < h) => ~hmsg[x].audio
     /\ hsess[g] = hsess[h]
     /\ unit[g].st # "none" /\ unit[h].st # "none"
     /\ ~cut[g] /\ ~cut[h])
    => unit[h].start = Max(unit[g].start + unit[g].dur, arr[h])

\* C3: with no stop, the threat state is set for as long as the window of the
\* latest match is running.
C3_DwellRestarts ==
  (stops = 0 /\ \E t \in threatTimers : t > 0) => isThreatDetected

\* C4: as long as stopSession has never run, at most one acquired media stream
\* has live tracks.
C4_OneAcquisition ==
  stops = 0 => Cardinality({i \in Starts : stream[i] = "live"}) <= 1

\* C5: at most one session is connecting or open with no close asked of it.
C5_OneSession ==
  Cardinality({i \in Starts : session[i] \in {"connecting", "open"}
                              /\ ~closeReq[i]}) <= 1

Teardown ==
  /\ \A i \in Starts : interval[i] # "armed"
  /\ sessionPromiseRef = 0
  /\ \A i \in Starts : session[i] \notin {"connecting", "open"} \/ closeReq[i]
  /\ sourcesRef = {}
  /\ \A h \in Handlers : unit[h].st # "playing"
  /\ \A i \in Starts : inCtx[i] # "open" /\ outCtx[i] \notin {"suspended", "running"}
  /\ inputAudioCtxRef = 0 /\ outputAudioCtxRef = 0
  /\ srcObject = 0
  /\ \A i \in Starts : stream[i] # "live"
  /\ nextStartTimeRef = 0

\* C6: every step that takes the status from ACTIVE to IDLE leaves the system
\* torn down.
C6_IdleIsTornDown ==
  [][(status = "ACTIVE" /\ status' = "IDLE") => Teardown']_vars

\* C7: in the single-session scenario, once stopSession has run the active set
\* is empty and the playback clock is 0.
C7_QuietAfterStop ==
  stops > 0 => (sourcesRef = {} /\ nextStartTimeRef = 0)

\* C8: once the handler of a message is through, and the session that delivered
\* it is the one the application holds and is still open, while every other
\* one is closed with its media released, every call of the message that names
\* the registered tool has exactly one response with its id and name.
C8_AnsweredOnce ==
  \A h \in Handlers :
    (/\ hpc[h] \in {"done", "dropped", "aborted"}
     /\ sessionPromiseRef = hsess[h]
     /\ session[hsess[h]] = "open"
     /\ \A j \in Starts \ {hsess[h]} :
          session[j] \in {"none", "closed"} /\ stream[j] # "live")
    => \A k \in Registered(hmsg[h]) : Cardinality(Responses(h, k)) = 1

\* C9: no sendToolResponse call is made on a session that is closing or closed.
C9_NoLateResponse ==
  \A n \in 1..Len(sent) : ~sent[n].late

\* C10: every call of stopSession, the second of two in a row included, ends
\* with the status IDLE, no session reference, an empty active set, the
\* playback clock 0 and the threat state cleared.
C10_StopIdempotent ==
  [][stops' # stops =>
       (/\ status' = "IDLE"
        /\ sessionPromiseRef' = 0
        /\ sourcesRef' = {}
        /\ nextStartTimeRef' = 0
        /\ ~isThreatDetected')]_vars

\* stopSession has run twice after the one start, and the system is idle.
C10_Witness ==
  /\ stops = 2
  /\ status = "IDLE"
  /\ sessionPromiseRef = 0
  /\ sourcesRef = {}
  /\ nextStartTimeRef = 0
  /\ ~isThreatDetected

\* C11: no sendRealtimeInput call, of an audio block or of a video frame, is
\* made once stopSession has run.
C11_NoMediaAfterStop ==
  \A c \in media : ~c.after

\* C12: when onopen is delivered for a connecting session while the status is
\* CONNECTING, the status becomes ACTIVE and the session's capture loop is
\* started.
C12_OpenActivates ==
  [][\A i \in Starts :
       (status = "CONNECTING" /\ session[i] = "connecting"
        /\ session'[i] \in {"open", "closing"})
       => (status' = "ACTIVE" /\ interval'[i] = "armed")]_vars

\* C13: the step that delivers a failure of a start in progress (getUserMedia
\* rejects, or the connecting session reports an error) while the status is
\* CONNECTING leaves the status IDLE and an error reason set.
C13_FailureSurfaces ==
  [][\A i \in Starts :
       (/\ status = "CONNECTING"
        /\ \/ startPc[i] = "media" /\ startPc'[i] = "failed"
           \/ session[i] = "connecting" /\ session'[i] = "failed")
       => (status' = "IDLE" /\ error' # "")]_vars

\* C14: the status changes only along IDLE -> CONNECTING -> ACTIVE, and from
\* CONNECTING or ACTIVE back to IDLE.
C14_LifecycleGraph ==
  [][status' # status =>
       <<status, status'>> \in {<<"IDLE", "CONNECTING">>, <<"CONNECTING", "ACTIVE">>,
                                <<"CONNECTING", "IDLE">>, <<"ACTIVE", "IDLE">>}]_vars

\* C15: the step that takes in a message whose only content is a call of an
\* unregistered tool ends its handling at once, sends nothing and changes no
\* session, playback or threat state; and no response ever carries a name other
\* than the registered one.
UnregisteredCall == Msg(<<"other">>, "none", FALSE, FALSE)

C15_UnregisteredIgnored ==
  [][/\ \A n \in 1..Len(sent') : sent'[n].name = RegisteredTool
     /\ \A h \in Handlers :
          (hpc[h] = "idle" /\ hpc'[h] # "idle" /\ hmsg'[h] = UnregisteredCall)
          => /\ hpc'[h] \in {"done", "dropped"}
             /\ sent' = sent
             /\ UNCHANGED <<appVars, envVars, timerVars, unit, audioQ, stops>>]_vars

C15_Witness ==
  \E h \in Handlers :
    /\ hpc[h] = "done"
    /\ hmsg[h] = UnregisteredCall
    /\ status = "ACTIVE"
    /\ sent = <<>>

\* C16: of two audio chunks of one session that are both scheduled, with no
\* playback reset since the first arrived, the one that arrived first has the
\* strictly earlier start time.
C16_ArrivalOrder ==
  \A g, h \in Handlers :
    (/\ g < h
     /\ hmsg[g].audio /\ hmsg[h].audio
     /\ hsess[g] = hsess[h]
     /\ unit[g].st # "none" /\ unit[h].st # "none"
     /\ ~cut[g] /\ ~cut[h])
    => unit[g].start < unit[h].start

\* C17: once the handler of an interrupted message is through, no audio chunk
\* that arrived before that message on the same session is playing or in the
\* active set.
C17_InterruptDiscards ==
  \A h, g \in Handlers :
    (/\ h < g
     /\ hmsg[h].audio
     /\ hmsg[g].interrupted /\ hpc[g] = "done"
     /\ hsess[h] = hsess[g]
     /\ stops = 0)
    => (unit[h].st # "playing" /\ h \notin sourcesRef)

\* C18: every unit that was started was given a start time at or after the
\* output context's currentTime of that moment.
C18_NotInThePast ==
  \A h \in Handlers : unit[h].st # "none" => unit[h].start >= unit[h].at

\* C19: a step either leaves the playback clock where it was or raises it, or
\* sets it to 0 in stopSession or in the interrupted block of a handler.
C19_ClockMonotone ==
  [][\/ nextStartTimeRef' >= nextStartTimeRef
     \/ /\ nextStartTimeRef' = 0
        /\ \/ stops' # stops
           \/ \E h \in Handlers :
                hpc[h] # "done" /\ hpc'[h] = "done" /\ hmsg'[h].interrupted]_vars

C19_Witness ==
  /\ nextStartTimeRef = 2
  /\ \E h \in Handlers : unit[h].st = "playing" /\ unit[h].start = 1 /\ unit[h].dur = 1

\* C20: the active set holds exactly the units that were started and have
\* neither ended nor been stopped.
C20_ActiveSetExact ==
  sourcesRef = {h \in Handlers : unit[h].st = "playing"}

C20_Witness ==
  \E g, h \in Handlers :
    /\ unit[g].st = "ended"
    /\ unit[h].st = "playing"
    /\ sourcesRef = {h}

\* C21: the step in which a decode fails adds nothing to the active set, does
\* not raise the playback clock and leaves the status alone; and a chunk that
\* is scheduled while a chunk was skipped and no other has been scheduled gets
\* no start time beyond the output time of that moment, as no duration was
\* added for the skipped one.
Skipped(f) == hpc[f] = "done" /\ hctx[f] # 0 /\ unit[f].st = "none"

C21_DecodeFailureSkipped ==
  [][/\ \A h \in Handlers :
          (hpc[h] = "decode" /\ hpc'[h] = "done" /\ unit'[h].st = "none")
          => /\ h \notin sourcesRef'
             /\ sourcesRef' \subseteq sourcesRef
             /\ nextStartTimeRef' <= nextStartTimeRef
             /\ status' = status
     /\ \A f, g \in Handlers :
          (/\ f # g /\ Skipped(f)' /\ unit'[g].st # "none"
           /\ \A e \in Handlers \ {g} : unit'[e].st = "none"
           /\ stops' = 0)
          => unit'[g].start <= unit'[g].at]_vars

C21_Witness ==
  \E f, g \in Handlers :
    /\ f < g
    /\ hmsg[f].calls = <<>> /\ hmsg[g].calls = <<>>
    /\ Skipped(f)
    /\ unit[g].st = "playing"
    /\ unit[g].start = unit[g].at
    /\ unit[g].start = 1
    /\ status = "ACTIVE"
    /\ stops = 0

====
